---- MODULE Spec2Model ----
(***************************************************************************)
(* The eclipse-pair search of kvsankar/ancient-eclipse-pairs as a state    *)
(* machine: phase 1 enumerates solar and lunar eclipses with the ephemeris *)
(* library (the Oracle), the list is sorted by time, phase 2 walks the     *)
(* index pairs (i, j), i < j, within the gap threshold and tests both      *)
(* events' visibility at every location of the grid.                       *)
(*                                                                         *)
(* Four scripts share this structure and differ in details; the variable   *)
(* script says which one runs:                                             *)
(*   "pairs"  find_eclipse_pairs.py       (search_eclipses_before_3000bc)  *)
(*   "grid"   find_eclipse_pairs_grid.py                                   *)
(*   "fixed"  find_pairs_fixed.py                                          *)
(*   "final"  find_final.py                                                *)
(*                                                                         *)
(* Time is the Julian Day in ticks of 1/Day of a day. Magnitudes and       *)
(* fractions are in thousandths, angles in whole degrees.                  *)
(***************************************************************************)
EXTENDS Integers, Sequences, FiniteSets, TLC

\* ------------------------------------------------------------ bounds
\* Ticks per day: the resolution of the model's clock.
Day == 2
\* The Julian Day of the range start, in ticks.
JdStart == 40
\* Events per kind the Oracle's ephemeris holds.
MaxSolar == 2
MaxLunar == 2
\* Events of both kinds together.
MaxEvents == 3
\* Locations of the grid.
MaxLocs == 2
\* Oracle queries per enumeration loop the model follows.
MaxQueries == 4

\* ------------------------------------------------- program constants
\* max_gap_days=15 (find_eclipse_pairs.py), the literal 15 of the others.
MaxGapDays == 15
\* magnitude > 0.001, in thousandths.
VisThreshold == 1
\* abs(hour_angle) > 60 (find_eclipse_pairs.py), > 45 (find_eclipse_pairs_grid.py).
NightAnglePairs == 60
NightAngleGrid == 45
\* len(attr[1]) > 4 selects the magnitude, > 5 the Moon's altitude.
MagnitudeIndex == 4
AltitudeIndex == 5
\* pyswisseph returns 20 attributes from sol_eclipse_how / lun_eclipse_how.
AttrLen == 20

Scripts == {"pairs", "grid", "fixed", "final"}
Kinds == {"solar", "lunar"}

VARIABLES
    script,          \* which script runs
    oracleMode,      \* per kind: how the Oracle answers "next eclipse"
    ephemeris,       \* per kind: the event times of an exact Oracle
    world,           \* the Oracle's answers to visibility queries so far
    jd_start,
    jd_end,
    max_gap_days,    \* in days
    test_locations,  \* the grid, a sequence of locations
    pc,              \* "solar", "lunar", "pair", "loc", "done"; "grid", "gridded"
    jd,              \* the enumeration cursor
    eclipses,        \* sequence of <<kind, time>>
    i,
    j,
    l,               \* position in test_locations
    pairs_found,     \* the result list
    queries,         \* history: per kind, the cursors the Oracle was asked
    gapChecked,      \* history: the <<i, j>> whose gap was computed
    tested,          \* history: the <<i, j, l>> whose visibility was evaluated
    emitted,         \* history: the <<i, j, l>> of each record of pairs_found
    runs,            \* history: the result lists of earlier runs of phase 2
    lat,             \* the grid loops' variables, in degrees
    lon

vars == <<script, oracleMode, ephemeris, world, jd_start, jd_end, max_gap_days,
          test_locations, pc, jd, eclipses, i, j, l, pairs_found, queries,
          gapChecked, tested, emitted, runs, lat, lon>>

\* ----------------------------------------------------------- helpers
Min(S) == CHOOSE x \in S : \A y \in S : x <= y

\* ------------------------------------------------------- the Oracle
\* swe.sol_eclipse_when_glob / swe.lun_eclipse_when: (retflag, tret). An exact
\* Oracle returns the first event of its ephemeris at or after the cursor with
\* a positive retflag (the eclipse type), and ERR (-1) when there is none. A
\* monotonic Oracle returns any time at or after the cursor; an arbitrary one
\* may also return a time before it.
WhenFound(t) == [retflag |-> 1, tret |-> t]
WhenError == [retflag |-> -1, tret |-> 0]

ExactWhen(events, cursor) ==
    LET later == {t \in events : t >= cursor}
    IN  IF later = {} THEN WhenError ELSE WhenFound(Min(later))

MonotonicTimes(cursor, end) == {cursor, cursor + 1, cursor + Day, end}

EarlierTimes(cursor) == {cursor - Day, cursor - Day - 1}

WhenResponses(kind, cursor) ==
    CASE oracleMode[kind] = "exact" ->
            {ExactWhen(ephemeris[kind], cursor)}
      [] oracleMode[kind] = "monotonic" ->
            {WhenError} \cup {WhenFound(t) : t \in MonotonicTimes(cursor, jd_end)}
      [] oracleMode[kind] = "arbitrary" ->
            {WhenError} \cup {WhenFound(t) : t \in MonotonicTimes(cursor, jd_end)
                                                   \cup EarlierTimes(cursor)}

\* ------------------------------------------------- phase 1: enumerate
\* A Python value that is None or a float.
None == [isNone |-> TRUE, val |-> 0]
Float(x) == [isNone |-> FALSE, val |-> x]

\* Python truth of such a value: None and 0.0 are false.
Truthy(v) == ~v.isNone /\ v.val # 0

\* find_next_solar_eclipse / find_next_lunar_eclipse.
find_next_eclipse(result) ==
    IF result.retflag >= 0 THEN Float(result.tret) ELSE None

\* Accepts with the range end included: "next_solar <= jd_end".
AcceptsInclusive(s, result, end) ==
    IF s \in {"pairs", "grid"}
    THEN LET next == find_next_eclipse(result)
         IN  Truthy(next) /\ next.val <= end
    ELSE result.retflag > 0 /\ result.tret <= end

\* Accepts without the test of the return flag: "if next_solar < jd_end".
AcceptsAnyFlag(s, result, end) == result.tret < end

\* The loop's test of the Oracle's answer: does it append the event?
\* pairs, grid: "if next_solar and next_solar < jd_end";
\* fixed, final: "if result[0] > 0 and result[1][0] < jd_end".
Accepts(s, result, end) ==
    IF s \in {"pairs", "grid"}
    THEN LET next == find_next_eclipse(result)
         IN  Truthy(next) /\ next.val < end
    ELSE result.retflag > 0 /\ result.tret < end

\* AdvanceCursor by one tick instead of one day.
AdvanceCursorTick(t) == t + 1

\* AdvanceCursor without the guard increment: "jd = next_solar".
AdvanceCursorNone(t) == t

\* AdvanceCursor by two days: "jd = next_solar + 2".
AdvanceCursorTwo(t) == t + 2 * Day

\* The cursor after an accepted event: "jd = next_solar + 1".
AdvanceCursor(t) == t + Day

\* InsertByTime putting an event before those of the same time: a sort that
\* is not stable.
RECURSIVE InsertBeforeEqual(_, _)
InsertBeforeEqual(sorted, e) ==
    IF sorted = <<>> THEN <<e>>
    ELSE IF sorted[Len(sorted)][2] < e[2] THEN Append(sorted, e)
    ELSE Append(InsertBeforeEqual(SubSeq(sorted, 1, Len(sorted) - 1), e),
                sorted[Len(sorted)])

\* eclipses.sort(key=lambda x: x[1]): a stable sort by time.
RECURSIVE InsertByTime(_, _)
InsertByTime(sorted, e) ==
    IF sorted = <<>> THEN <<e>>
    ELSE IF sorted[Len(sorted)][2] <= e[2] THEN Append(sorted, e)
    ELSE Append(InsertByTime(SubSeq(sorted, 1, Len(sorted) - 1), e),
                sorted[Len(sorted)])

RECURSIVE SortByTime(_)
SortByTime(s) ==
    IF s = <<>> THEN <<>>
    ELSE InsertByTime(SortByTime(SubSeq(s, 1, Len(s) - 1)), s[Len(s)])

\* ------------------------------------------- the visibility predicates
\* What the library answers to a visibility query at (time, location): it
\* throws, or returns retflag and attributes (sol_eclipse_how, lun_eclipse_how),
\* the sidereal time and the Sun's longitude (sidtime, calc_ut).
Answer(throws, retflag, len, fraction, magnitude, armc, sun_lon, moon_alt) ==
    [throws |-> throws, retflag |-> retflag, len |-> len, fraction |-> fraction,
     magnitude |-> magnitude, armc |-> armc, sun_lon |-> sun_lon,
     moon_alt |-> moon_alt]

Throws == Answer(TRUE, 0, 0, 0, 0, 0, 0, 0)

SolarAnswers ==
    { Throws,
      Answer(FALSE, -1, AttrLen, 0, 0, 0, 0, 0),
      Answer(FALSE, 1, AttrLen, VisThreshold, VisThreshold, 0, 0, 0),
      Answer(FALSE, 1, AttrLen, VisThreshold + 1, VisThreshold + 1, 0, 0, 0) }

LunarAnswers ==
    { Throws,
      Answer(FALSE, 1, AttrLen, 0, 0, 100, 10, 10),
      Answer(FALSE, 1, AttrLen, 0, 0, 10, 10, -10) }

Answers(kind) == IF kind = "solar" THEN SolarAnswers ELSE LunarAnswers

Abs(x) == IF x < 0 THEN -x ELSE x

\* "hour_angle = (armc - sun_ra) % 360; if hour_angle > 180: hour_angle -= 360".
HourAngle(a) ==
    LET h == (a.armc - a.sun_lon) % 360
    IN  IF h > 180 THEN h - 360 ELSE h

\* check_solar_eclipse_visibility with the threshold included:
\* "magnitude >= 0.001".
SolarVisibleFromThreshold(s, a) ==
    /\ ~a.throws
    /\ IF s = "final" THEN a.retflag > 0 ELSE a.retflag >= 0
    /\ a.len > 0
    /\ (IF s \in {"pairs", "grid"} /\ a.len > MagnitudeIndex
        THEN a.magnitude ELSE a.fraction) >= VisThreshold

\* check_solar_eclipse_visibility and the inline solar checks.
check_solar_eclipse_visibility(s, a) ==
    IF a.throws THEN FALSE
    ELSE CASE s \in {"pairs", "grid"} ->
                IF a.retflag >= 0
                THEN LET fraction_covered == IF a.len > 0 THEN a.fraction ELSE 0
                         magnitude == IF a.len > MagnitudeIndex THEN a.magnitude
                                      ELSE fraction_covered
                     IN  magnitude > VisThreshold
                ELSE FALSE
           [] s = "fixed" ->
                IF a.retflag >= 0 /\ a.len > 0 THEN a.fraction > VisThreshold
                ELSE FALSE
           [] s = "final" ->
                IF a.retflag > 0 /\ a.len > 0 THEN a.fraction > VisThreshold
                ELSE FALSE

\* check_lunar_eclipse_visibility and the inline lunar checks.
check_lunar_eclipse_visibility(s, a) ==
    CASE s = "pairs" ->
            IF a.throws THEN FALSE ELSE Abs(HourAngle(a)) > NightAnglePairs
      [] s = "grid" ->
            IF a.throws THEN TRUE ELSE Abs(HourAngle(a)) > NightAngleGrid
      \* find_pairs_fixed.py: "if attr and len(attr) > 1: vis = True" on the
      \* (retflag, attributes) pair the library returns, "except: vis = True".
      [] s = "fixed" ->
            TRUE
      [] s = "final" ->
            IF a.throws THEN FALSE
            ELSE IF a.retflag > 0
                 THEN IF a.len > AltitudeIndex THEN a.moon_alt > 0 ELSE TRUE
                 ELSE FALSE

\* Visible without a look at the answer: every event is seen everywhere.
VisibleAlways(s, kind, a) == TRUE

\* "if type1 == 'solar': ... else: ...": the predicate of the event's kind.
Visible(s, kind, a) ==
    IF kind = "solar" THEN check_solar_eclipse_visibility(s, a)
    ELSE check_lunar_eclipse_visibility(s, a)

\* FirstMatch with the "break" in every script.
FirstMatchAlways(s) == TRUE

\* FirstMatch without the "break" in any script.
FirstMatchNever(s) == FALSE

\* find_pairs_fixed.py and find_final.py leave the location loop at the first
\* location where both are visible ("break").
FirstMatch(s) == s \in {"fixed", "final"}

\* --------------------------------------------- phase 2: control flow
\* GapExceeds with the threshold a day late.
GapExceedsLate(gap, maxDays) == gap > (maxDays + 1) * Day

\* GapExceeds with the threshold excluded: "gap_days >= max_gap_days".
GapExceedsFrom(gap, maxDays) == gap >= maxDays * Day

\* "gap_days > max_gap_days", the gap in ticks.
GapExceeds(gap, maxDays) == gap > maxDays * Day

\* Where control goes when the loop over i moves on from ii: the body of
\* (ii+1, ii+2), or the end of "for i in range(len(eclipses) - 1)".
AfterI(ii, jj, n) ==
    IF ii + 1 <= n - 1 THEN <<"pair", ii + 1, ii + 2>> ELSE <<"done", ii, jj>>

\* AfterJ pairing consecutive events only: the loop over j ends after one pass.
AfterJConsecutive(ii, jj, n) == AfterI(ii, jj, n)

\* AfterJ ending the search: the pair's location loop is the last thing run.
AfterJAbort(ii, jj, n) == <<"done", ii, jj>>

\* Where control goes when the loop over j moves on from jj.
AfterJ(ii, jj, n) ==
    IF jj + 1 <= n THEN <<"pair", ii, jj + 1>> ELSE AfterI(ii, jj, n)

\* BreakInner as "continue": the loop over j moves on.
ContinueInner(ii, jj, n) == AfterJ(ii, jj, n)

\* "break" in the inner loop: the loop over i moves on.
BreakInner(ii, jj, n) == AfterI(ii, jj, n)

\* EnterPairs with the inner range from i: "for j in range(i, len(eclipses))".
EnterPairsSelf(n) == IF 1 <= n - 1 THEN <<"pair", 1, 1>> ELSE <<"done", 0, 0>>

\* EnterPairs without the test of the outer range: the body runs at once.
EnterPairsAlways(n) == <<"pair", 1, 2>>

\* EnterPairs with the outer range one short: "range(len(eclipses) - 2)".
EnterPairsShort(n) == IF 1 <= n - 2 THEN <<"pair", 1, 2>> ELSE <<"done", 0, 0>>

\* The entry of the double loop.
EnterPairs(n) == IF 1 <= n - 1 THEN <<"pair", 1, 2>> ELSE <<"done", 0, 0>>

\* Emit at the front: "pairs_found.insert(0, ...)".
EmitFirst(found, record) == <<record>> \o found

\* Emit keeping the last record only: "pairs_found = [record]".
EmitOnly(found, record) == <<record>>

\* "pairs_found.append(...)".
Emit(found, record) == Append(found, record)

\* The record appended for a location where both are visible.
PairRecord(loc, e1, e2, gap) ==
    [location |-> loc, eclipse1 |-> e1, eclipse2 |-> e2, gap_days |-> gap]

\* -------------------------------------------------------------- Init
\* The days of the searched range (100 years in the scripts).
RangeDays == 17

JdEnd == JdStart + RangeDays * Day

\* The instants an exact Oracle's ephemeris draws its events from: around the
\* range start, a day and less than a day apart, 10, 15 and 16 days later, at
\* the range end and past it.
SolarInstants ==
    {JdStart, JdStart + 1, JdStart + Day, JdStart + 16 * Day, JdEnd}

LunarInstants ==
    {JdStart, JdStart + 10 * Day, JdStart + MaxGapDays * Day,
     JdStart + MaxGapDays * Day + 1, JdEnd + 1}

AtMost(S, n) == {T \in SUBSET S : Cardinality(T) <= n}

\* The grids: test_locations is the caller's list in find_eclipse_pairs.py
\* (possibly empty), a generated non-empty grid in the other scripts.
Grid(n) == [k \in 1..n |-> k]

Grids(s) == {Grid(n) : n \in (IF s = "pairs" THEN 0 ELSE 1)..MaxLocs}

\* The start of a run, but for the Oracle.
Begin ==
    /\ jd_start = JdStart
    /\ max_gap_days = MaxGapDays
    /\ pc = "solar"
    /\ jd = jd_start
    /\ eclipses = <<>>
    /\ i = 0
    /\ j = 0
    /\ l = 0
    /\ pairs_found = <<>>
    /\ queries = [k \in Kinds |-> <<>>]
    /\ gapChecked = {}
    /\ tested = {}
    /\ emitted = <<>>
    /\ runs = <<>>
    /\ lat = 0
    /\ lon = 0

Start ==
    /\ Begin
    /\ world = <<>>

Init ==
    /\ script \in Scripts
    /\ oracleMode = [k \in Kinds |-> "exact"]
    /\ \E S \in AtMost(SolarInstants, MaxSolar), L \in AtMost(LunarInstants, MaxLunar) :
          /\ Cardinality(S) + Cardinality(L) <= MaxEvents
          /\ ephemeris = [solar |-> S, lunar |-> L]
    /\ jd_end = JdEnd
    /\ test_locations \in Grids(script)
    /\ Start

\* ----------------------------------------------------------- actions
\* Control moves to the point c of the double loop.
Goto(c) == pc' = c[1] /\ i' = c[2] /\ j' = c[3]

\* One pass of "while jd < jd_end:" for one kind. The model follows a loop
\* for MaxQueries queries.
Enumerate(kind, leave) ==
    IF jd < jd_end
    THEN /\ Len(queries[kind]) < MaxQueries
         /\ \E result \in WhenResponses(kind, jd) :
               /\ queries' = [queries EXCEPT ![kind] = Append(@, jd)]
               /\ IF Accepts(script, result, jd_end)
                  THEN /\ eclipses' = Append(eclipses, <<kind, result.tret>>)
                       /\ jd' = AdvanceCursor(result.tret)
                       /\ UNCHANGED <<pc, i, j>>
                  ELSE leave
    ELSE /\ leave
         /\ UNCHANGED queries

\* The solar loop; on leaving it, "jd = jd_start" starts the lunar loop.
FindSolar ==
    /\ pc = "solar"
    /\ Enumerate("solar", /\ pc' = "lunar"
                          /\ jd' = jd_start
                          /\ UNCHANGED <<eclipses, i, j>>)
    /\ UNCHANGED <<script, oracleMode, ephemeris, world, jd_start, jd_end,
                   max_gap_days, test_locations, l, pairs_found, gapChecked,
                   tested, emitted, runs, lat, lon>>

\* The lunar loop; on leaving it the list is sorted and the double loop entered.
FindLunar ==
    /\ pc = "lunar"
    /\ Enumerate("lunar", /\ eclipses' = SortByTime(eclipses)
                          /\ Goto(EnterPairs(Len(eclipses)))
                          /\ UNCHANGED jd)
    /\ UNCHANGED <<script, oracleMode, ephemeris, world, jd_start, jd_end,
                   max_gap_days, test_locations, l, pairs_found, gapChecked,
                   tested, emitted, runs, lat, lon>>

\* The head of the inner loop's body: "gap_days = jd2 - jd1", and "break" when
\* it exceeds the threshold; otherwise the location loop starts.
CheckGap ==
    /\ pc = "pair"
    /\ LET gap_days == eclipses[j][2] - eclipses[i][2]
           n == Len(eclipses)
       IN  /\ gapChecked' = gapChecked \cup {<<i, j>>}
           /\ IF GapExceeds(gap_days, max_gap_days)
              THEN /\ Goto(BreakInner(i, j, n))
                   /\ l' = 0
              ELSE IF test_locations = <<>>
                   THEN /\ Goto(AfterJ(i, j, n))
                        /\ l' = 0
                   ELSE /\ pc' = "loc"
                        /\ l' = 1
                        /\ UNCHANGED <<i, j>>
    /\ UNCHANGED <<script, oracleMode, ephemeris, world, jd_start, jd_end,
                   max_gap_days, test_locations, jd, eclipses, pairs_found,
                   queries, tested, emitted, runs, lat, lon>>

\* Known without memory: the Oracle may answer the same query differently.
KnownAnew(key) == Answers(key[1])

\* The Oracle's answer to a visibility query: the one it gave before for the
\* same event and location, else any.
Known(key) == IF key \in DOMAIN world THEN {world[key]} ELSE Answers(key[1])

\* One pass of the location loop for the pair (i, j).
TestLocation ==
    /\ pc = "loc"
    /\ LET e1 == eclipses[i]
           e2 == eclipses[j]
           loc == test_locations[l]
           k1 == <<e1[1], e1[2], loc>>
           k2 == <<e2[1], e2[2], loc>>
           gap_days == e2[2] - e1[2]
           n == Len(eclipses)
       IN  \E a1 \in Known(k1), a2 \in Known(k2) :
              /\ k1 = k2 => a1 = a2
              /\ world' = (k1 :> a1) @@ (k2 :> a2) @@ world
              /\ tested' = tested \cup {<<i, j, l>>}
              /\ LET visible1 == Visible(script, e1[1], a1)
                     visible2 == Visible(script, e2[1], a2)
                 IN  /\ IF visible1 /\ visible2
                        THEN /\ pairs_found' =
                                   Emit(pairs_found, PairRecord(loc, e1, e2, gap_days))
                             /\ emitted' = Append(emitted, <<i, j, l>>)
                        ELSE UNCHANGED <<pairs_found, emitted>>
                     /\ IF (visible1 /\ visible2 /\ FirstMatch(script))
                           \/ l = Len(test_locations)
                        THEN /\ Goto(AfterJ(i, j, n))
                             /\ l' = 0
                        ELSE /\ l' = l + 1
                             /\ UNCHANGED <<pc, i, j>>
    /\ UNCHANGED <<script, oracleMode, ephemeris, jd_start, jd_end,
                   max_gap_days, test_locations, jd, eclipses, queries,
                   gapChecked, runs, lat, lon>>

Next == FindSolar \/ FindLunar \/ CheckGap \/ TestLocation

Spec == Init /\ [][Next]_vars

\* The scripts are sequential programs: a step that can be taken is taken.
FairSpec == Spec /\ WF_vars(Next)

\* ------------------------------------- the visibility predicates alone
\* One solar eclipse and a lunar one 10 days later, searched at one location
\* for which the Oracle's answers are fixed beforehand, any of a wider set.
\* Fractions and magnitudes below, at and above the threshold.
Magnitudes == {0, VisThreshold, VisThreshold + 1, VisThreshold + 2}

\* sol_eclipse_how: it throws; an error flag; no eclipse at the location
\* (flag 0, nothing covered); an eclipse, with the fraction alone or with
\* all attributes.
RichSolarAnswers ==
    {Throws}
    \cup {Answer(FALSE, -1, AttrLen, v, v, 0, 0, 0) : v \in {0, VisThreshold + 1}}
    \cup {Answer(FALSE, 0, AttrLen, 0, 0, 0, 0, 0)}
    \cup {Answer(FALSE, 1, 1, v, v, 0, 0, 0) : v \in Magnitudes}
    \cup {Answer(FALSE, 1, AttrLen, f, g, 0, 0, 0) : f \in Magnitudes, g \in Magnitudes}

\* lun_eclipse_how, calc_ut, sidtime: they throw; or flag 0 or 1, attributes
\* with or without the altitude, the Sun at hour angle 0, 50 or 90 degrees and
\* the Moon 10 degrees below, on, or 10 degrees above the horizon.
RichLunarAnswers ==
    {Throws}
    \cup {Answer(FALSE, rf, len, 0, 0, armc, 10, alt) :
            rf \in {0, 1}, len \in {AltitudeIndex, AttrLen},
            armc \in {10, 60, 100}, alt \in {-10, 0, 10}}

SolarKey == <<"solar", JdStart, 1>>

LunarKey == <<"lunar", JdStart + 10 * Day, 1>>

InitVis ==
    /\ script \in Scripts
    /\ oracleMode = [k \in Kinds |-> "exact"]
    /\ ephemeris = [solar |-> {SolarKey[2]}, lunar |-> {LunarKey[2]}]
    /\ jd_end = JdEnd
    /\ test_locations = Grid(1)
    /\ \E a \in RichSolarAnswers, b \in RichLunarAnswers :
          world = (SolarKey :> a) @@ (LunarKey :> b)
    /\ Begin

SpecVis == InitVis /\ [][Next]_vars

\* ------------------------------------------------------ the search twice
\* The search is run, and when it has ended it is run once more with the same
\* arguments against the same Oracle: the first run's event list and result
\* list are kept in runs.
TwiceInstants == {JdStart, JdStart + 10 * Day, JdStart + 16 * Day}

InitTwice ==
    /\ script \in Scripts
    /\ oracleMode = [k \in Kinds |-> "exact"]
    /\ \E S \in AtMost(TwiceInstants, MaxSolar), L \in AtMost(TwiceInstants, MaxLunar) :
          /\ Cardinality(S) + Cardinality(L) <= MaxEvents
          /\ ephemeris = [solar |-> S, lunar |-> L]
    /\ jd_end = JdEnd
    /\ test_locations \in Grids(script)
    /\ Start

\* The second call: "eclipses = []", "jd = jd_start", "pairs_found = []".
Rerun ==
    /\ pc = "done"
    /\ runs = <<>>
    /\ runs' = <<[events |-> eclipses, found |-> pairs_found]>>
    /\ pc' = "solar"
    /\ jd' = jd_start
    /\ eclipses' = <<>>
    /\ i' = 0
    /\ j' = 0
    /\ l' = 0
    /\ pairs_found' = <<>>
    /\ queries' = [k \in Kinds |-> <<>>]
    /\ gapChecked' = {}
    /\ tested' = {}
    /\ emitted' = <<>>
    /\ UNCHANGED <<script, oracleMode, ephemeris, world, jd_start, jd_end,
                   max_gap_days, test_locations, lat, lon>>

NextTwice == FindSolar \/ FindLunar \/ CheckGap \/ TestLocation \/ Rerun

SpecTwice == InitTwice /\ [][NextTwice]_vars

\* ------------------------------------------------- the generated grids
\* Python's range(start, stop, step) for a positive step, as a sequence.
RangeLen(start, stop, step) ==
    IF stop <= start THEN 0 ELSE (stop - start + step - 1) \div step

\* PyRange with the stop value included.
PyRangeInclusive(start, stop, step) ==
    [k \in 1..((stop - start) \div step + 1) |-> start + (k - 1) * step]

PyRange(start, stop, step) ==
    [k \in 1..RangeLen(start, stop, step) |-> start + (k - 1) * step]

\* The scripts that generate their grid, and its step in degrees.
GridScripts == {"grid", "fixed", "final"}

GridStep(s) ==
    CASE s = "grid" -> 30
      [] s = "fixed" -> 20
      [] s = "final" -> 15

\* "for lat in range(-60, 75, 30)" in find_eclipse_pairs_grid.py,
\* "range(-60, 61, 20)" and "range(-60, 61, 15)" in the other two.
LatRange(s) == PyRange(-60, IF s = "grid" THEN 75 ELSE 61, GridStep(s))

\* "for lon in range(-180, 180, 30)" (20, 15).
LonRange(s) == PyRange(-180, 180, GridStep(s))

\* The position of the value v in the sequence r.
IndexOf(r, v) == CHOOSE k \in DOMAIN r : r[k] = v

InitGrid ==
    /\ script \in GridScripts
    /\ oracleMode = [k \in Kinds |-> "exact"]
    /\ ephemeris = [k \in Kinds |-> {}]
    /\ world = <<>>
    /\ jd_start = JdStart
    /\ jd_end = JdEnd
    /\ max_gap_days = MaxGapDays
    /\ jd = jd_start
    /\ eclipses = <<>>
    /\ i = 0
    /\ j = 0
    /\ l = 0
    /\ pairs_found = <<>>
    /\ queries = [k \in Kinds |-> <<>>]
    /\ gapChecked = {}
    /\ tested = {}
    /\ emitted = <<>>
    /\ runs = <<>>
    /\ pc = "grid"
    /\ test_locations = <<>>
    /\ lat = LatRange(script)[1]
    /\ lon = LonRange(script)[1]

\* One pass of the inner loop: "test_locations.append((lat, lon))", and the
\* loops move on.
AddLocation ==
    /\ pc = "grid"
    /\ test_locations' = Append(test_locations, [lat |-> lat, lon |-> lon])
    /\ LET lats == LatRange(script)
           lons == LonRange(script)
           a == IndexOf(lats, lat)
           b == IndexOf(lons, lon)
       IN  IF b < Len(lons)
           THEN /\ lon' = lons[b + 1]
                /\ UNCHANGED <<lat, pc>>
           ELSE IF a < Len(lats)
                THEN /\ lat' = lats[a + 1]
                     /\ lon' = lons[1]
                     /\ UNCHANGED pc
                ELSE /\ pc' = "gridded"
                     /\ UNCHANGED <<lat, lon>>
    /\ UNCHANGED <<script, oracleMode, ephemeris, world, jd_start, jd_end,
                   max_gap_days, jd, eclipses, i, j, l, pairs_found, queries,
                   gapChecked, tested, emitted, runs>>

NextGrid == AddLocation

SpecGrid == InitGrid /\ [][NextGrid]_vars

\* ------------------------------------------------ the Enumerator alone
\* Phase 1 against Oracles that need not be exact, over ranges of one and two
\* days: at most one kind's Oracle is arbitrary.
Modes == {"exact", "monotonic", "arbitrary"}

EnumInstants == {JdStart, JdStart + Day}

InitEnum ==
    /\ script \in Scripts
    /\ oracleMode \in {m \in [Kinds -> Modes] : \E k \in Kinds : m[k] # "arbitrary"}
    /\ \E S \in AtMost(EnumInstants, MaxSolar), L \in AtMost(EnumInstants, MaxLunar) :
          ephemeris = [solar |-> IF oracleMode["solar"] = "exact" THEN S ELSE {},
                       lunar |-> IF oracleMode["lunar"] = "exact" THEN L ELSE {}]
    /\ jd_end \in {JdStart + Day, JdStart + 2 * Day}
    /\ test_locations = Grid(1)
    /\ Start

NextEnum == FindSolar \/ FindLunar

SpecEnum == InitEnum /\ [][NextEnum]_vars

\* ------------------------------------------------------------ claims
\* The gap between the events at positions a and b of the list, in ticks.
Gap(a, b) == eclipses[b][2] - eclipses[a][2]

\* The times of one kind's events, in list order.
KindTimes(kind) ==
    LET s == SelectSeq(eclipses, LAMBDA e : e[1] = kind)
    IN  [k \in DOMAIN s |-> s[k][2]]

StrictlyIncreasing(s) == \A k \in 1..(Len(s) - 1) : s[k] < s[k + 1]

\* The index pairs an unpruned scan of all a < b keeps.
WithinThreshold ==
    {p \in (1..Len(eclipses)) \X (1..Len(eclipses)) :
        p[1] < p[2] /\ Gap(p[1], p[2]) <= max_gap_days * Day}

\* The index pairs whose visibility was evaluated at some location.
EvaluatedPairs == {<<t[1], t[2]>> : t \in tested}

\* The Oracle's answer made the event visible at the location.
VisibleAt(e, loc) ==
    /\ <<e[1], e[2], loc>> \in DOMAIN world
    /\ Visible(script, e[1], world[<<e[1], e[2], loc>>])

\* C1: every record of pairs_found is for list positions a < b, holds those
\* two events, its gap is second.time - first.time and lies in
\* [0, max_gap_days]; two events 16 days apart with max_gap_days = 15 give no
\* record.
C1_GapWithinThreshold ==
    /\ Len(emitted) = Len(pairs_found)
    /\ \A k \in DOMAIN pairs_found :
          LET r == pairs_found[k]
              a == emitted[k][1]
              b == emitted[k][2]
          IN  /\ a < b
              /\ b <= Len(eclipses)
              /\ r.eclipse1 = eclipses[a]
              /\ r.eclipse2 = eclipses[b]
              /\ r.gap_days = r.eclipse2[2] - r.eclipse1[2]
              /\ 0 <= r.gap_days
              /\ r.gap_days <= max_gap_days * Day
    /\ (/\ pc = "done"
        /\ Len(eclipses) = 2
        /\ Gap(1, 2) = 16 * Day
        /\ max_gap_days = 15) => pairs_found = <<>>

\* A record whose gap is exactly the threshold was emitted.
C1_Witness ==
    /\ pc = "done"
    /\ \E k \in DOMAIN pairs_found : pairs_found[k].gap_days = max_gap_days * Day

\* Two events 16 days apart were searched with a grid where both can be seen.
C1_WitnessSixteenDays ==
    /\ pc = "done"
    /\ Len(eclipses) = 2
    /\ Gap(1, 2) = 16 * Day
    /\ test_locations # <<>>
    /\ pairs_found = <<>>

\* C2: with an Oracle that answers at or after the cursor, each kind's events
\* are strictly increasing in time and lie in [jd_start, jd_end).
C2_StrictlyIncreasingInRange ==
    \A kind \in Kinds :
        oracleMode[kind] # "arbitrary" =>
            /\ StrictlyIncreasing(KindTimes(kind))
            /\ \A k \in DOMAIN KindTimes(kind) :
                  jd_start <= KindTimes(kind)[k] /\ KindTimes(kind)[k] < jd_end

\* A monotonic Oracle's loop has ended with two events.
C2_Witness ==
    \E kind \in Kinds :
        /\ oracleMode[kind] = "monotonic"
        /\ pc \notin {"solar", "lunar"}
        /\ Len(KindTimes(kind)) = 2

C4_Pruning ==
    \A p \in gapChecked :
        Gap(p[1], p[2]) > max_gap_days * Day =>
            /\ \A q \in gapChecked : q[1] = p[1] => q[2] <= p[2]
            /\ \A t \in tested : t[1] = p[1] => t[2] < p[2]

\* The inner loop broke with events left in the list.
C4_Witness ==
    /\ pc = "done"
    /\ \E p \in gapChecked :
          /\ Gap(p[1], p[2]) > max_gap_days * Day
          /\ p[2] < Len(eclipses)

\* C5: a solar eclipse at T, a lunar one at T + 10 days, max_gap_days = 15 and
\* a grid of one location: the pair is evaluated there, and when both events
\* are visible the result is exactly one record, with gap 10 and that location.
C5_Scenario ==
    LET solar == <<"solar", JdStart>>
        lunar == <<"lunar", JdStart + 10 * Day>>
    IN  (/\ pc = "done"
         /\ ephemeris = [solar |-> {solar[2]}, lunar |-> {lunar[2]}]
         /\ max_gap_days = 15
         /\ test_locations = Grid(1)) =>
            /\ tested = {<<1, 2, 1>>}
            /\ IF VisibleAt(solar, 1) /\ VisibleAt(lunar, 1)
               THEN pairs_found = <<PairRecord(1, solar, lunar, 10 * Day)>>
               ELSE pairs_found = <<>>

\* The scenario ran to its end with both events visible.
C5_Witness ==
    /\ pc = "done"
    /\ ephemeris = [solar |-> {JdStart}, lunar |-> {JdStart + 10 * Day}]
    /\ max_gap_days = 15
    /\ test_locations = Grid(1)
    /\ VisibleAt(<<"solar", JdStart>>, 1)
    /\ VisibleAt(<<"lunar", JdStart + 10 * Day>>, 1)
    /\ Len(pairs_found) = 1

\* The grid positions at which both events of the pair are visible, by the
\* Oracle's answers.
Satisfying(p) ==
    {m \in DOMAIN test_locations :
        /\ VisibleAt(eclipses[p[1]], test_locations[m])
        /\ VisibleAt(eclipses[p[2]], test_locations[m])}

\* The positions in pairs_found of the records of the pair.
RecordsOf(p) == {k \in DOMAIN emitted : <<emitted[k][1], emitted[k][2]>> = p}

RECURSIVE Ascending(_)
Ascending(S) ==
    IF S = {} THEN <<>> ELSE <<Min(S)>> \o Ascending(S \ {Min(S)})

\* The Oracle's events of the kind in [jd_start, jd_end).
InRange(kind) == {t \in ephemeris[kind] : jd_start <= t /\ t < jd_end}

MoreThanADayApart(S) == \A t, u \in S : t # u => Abs(t - u) > Day

\* The kind's enumeration loop has been left.
LoopEnded(kind) ==
    IF kind = "solar" THEN pc # "solar" ELSE pc \notin {"solar", "lunar"}

\* C7: with an exact Oracle whose events of a kind are more than a day apart,
\* the kind's loop returns exactly the Oracle's events in [jd_start, jd_end),
\* each once, in order.
C7_EnumeratesExactly ==
    \A kind \in Kinds :
        (/\ oracleMode[kind] = "exact"
         /\ MoreThanADayApart(ephemeris[kind])
         /\ LoopEnded(kind)) => KindTimes(kind) = Ascending(InRange(kind))

\* A range holding exactly two solar eclipses was enumerated.
C7_Witness ==
    /\ LoopEnded("solar")
    /\ MoreThanADayApart(ephemeris["solar"])
    /\ Cardinality(InRange("solar")) = 2
    /\ Len(KindTimes("solar")) = 2

\* C8 as claimed: whatever the Oracle answers, a loop asks it no more often
\* than the range has days, plus once.
C8_IterationsBounded ==
    \A kind \in Kinds : Len(queries[kind]) * Day <= (jd_end - jd_start) + Day

\* C9: with an Oracle that answers at or after the cursor, a loop asks it at
\* most (jd_end - jd_start) days + 1 times, and every pass that finds the
\* cursor before jd_end can be taken: the loop ends by its own test or "break",
\* never at the MaxQueries queries the model follows.
C9_MonotonicTerminates ==
    \A kind \in Kinds :
        oracleMode[kind] # "arbitrary" =>
            /\ Len(queries[kind]) * Day <= (jd_end - jd_start) + Day
            /\ (pc = kind /\ jd < jd_end) => Len(queries[kind]) < MaxQueries

\* A monotonic Oracle's loop has ended after two queries.
C9_Witness ==
    \E kind \in Kinds :
        /\ oracleMode[kind] = "monotonic"
        /\ LoopEnded(kind)
        /\ Len(queries[kind]) = 2

\* The visibility query failed: it threw, or returned an error flag.
Failed(a) == a.throws \/ a.retflag < 0

\* C10 as claimed: an event whose visibility query failed at a location is not
\* visible there, whatever its kind.
C10_FailureNotVisible ==
    \A key \in DOMAIN world :
        Failed(world[key]) => ~Visible(script, key[1], world[key])

\* The visibility query of one of the two events failed when the pair and
\* location t = <<a, b, m>> was evaluated.
FailedAt(t) ==
    LET e1 == eclipses[t[1]]
        e2 == eclipses[t[2]]
        loc == test_locations[t[3]]
    IN  \/ Failed(world[<<e1[1], e1[2], loc>>])
        \/ Failed(world[<<e2[1], e2[2], loc>>])

\* The location loop of the pair was left by "break" at grid position m.
BrokeAt(t) ==
    /\ script \in {"fixed", "final"}
    /\ t[3] \in Satisfying(<<t[1], t[2]>>)

AnswersTo(kind) ==
    [k \in DOMAIN queries[kind] |-> ExactWhen(ephemeris[kind], queries[kind][k])]

\* The Oracle signalled failure or "no eclipse found": an error return flag,
\* for which find_next_solar_eclipse / find_next_lunar_eclipse return None.
NoEventFound(result) == result.retflag < 0 \/ find_next_eclipse(result).isNone

\* The kind's loop has ended on such an answer.
EndedByFailure(kind) ==
    /\ LoopEnded(kind)
    /\ queries[kind] # <<>>
    /\ NoEventFound(AnswersTo(kind)[Len(queries[kind])])

\* C12: no event is appended for an answer that signals failure or "no
\* eclipse found"; a loop that such an answer ended has kept the events of
\* the answers before it, the other kind's loop runs all the same, and so
\* does the pair search, on the events of both kinds.
C12_OracleFailureEndsLoop ==
    \A kind \in Kinds :
        oracleMode[kind] = "exact" =>
            /\ Len(KindTimes(kind)) <=
                  Cardinality({k \in DOMAIN queries[kind] :
                                  ~NoEventFound(AnswersTo(kind)[k])})
            /\ EndedByFailure(kind) =>
                  /\ Len(KindTimes(kind)) = Len(queries[kind]) - 1
                  /\ \A k \in DOMAIN KindTimes(kind) :
                        KindTimes(kind)[k] = AnswersTo(kind)[k].tret
                  /\ kind = "solar" => pc = "lunar" \/ queries["lunar"] # <<>>
                  /\ kind = "lunar" => queries["solar"] # <<>>
                  /\ (pc = "done" /\ test_locations # <<>>) =>
                        EvaluatedPairs = WithinThreshold

\* The solar loop ended on a failure after one event, and the pair search
\* then paired that event with a lunar one.
C12_Witness ==
    /\ pc = "done"
    /\ EndedByFailure("solar")
    /\ Len(KindTimes("solar")) = 1
    /\ Len(KindTimes("lunar")) >= 1
    /\ EvaluatedPairs # {}

\* A record was appended for the pair and location t.
Recorded(t) == \E k \in DOMAIN emitted : emitted[k] = t

\* C13 as claimed: a lunar eclipse counts as visible at a location exactly
\* when the Moon's altitude there is above 0 degrees, so the pair of a solar
\* and a lunar eclipse is recorded exactly when the solar one is visible and
\* the Moon is up.
C13_LunarVisibleIffMoonUp ==
    <<1, 2, 1>> \in tested =>
        /\ Visible(script, "lunar", world[LunarKey]) <=> world[LunarKey].moon_alt > 0
        /\ Recorded(<<1, 2, 1>>) <=>
              /\ Visible(script, "solar", world[SolarKey])
              /\ world[LunarKey].moon_alt > 0

\* The solar query succeeded: it returned, and without an error flag.
Succeeded(a) == ~a.throws /\ a.retflag >= 0

\* What the script compares with the threshold: the magnitude in
\* find_eclipse_pairs.py and find_eclipse_pairs_grid.py when the attributes
\* hold it, the fraction covered otherwise.
Measure(s, a) ==
    IF s \in {"pairs", "grid"} /\ a.len > MagnitudeIndex THEN a.magnitude
    ELSE a.fraction

\* Answer b is answer a with a fraction and a magnitude at least as large.
NoLess(a, b) ==
    /\ a.throws = b.throws /\ a.retflag = b.retflag /\ a.len = b.len
    /\ a.fraction <= b.fraction /\ a.magnitude <= b.magnitude

\* C14: a solar eclipse counts as visible at a location exactly when the
\* query succeeded and the fraction covered (or magnitude) is above 0.001 (1
\* thousandth), not at 0.001; the pair is recorded accordingly; and a larger
\* fraction or magnitude never makes a visible eclipse invisible.
C14_SolarVisibleAboveThreshold ==
    /\ <<1, 2, 1>> \in tested =>
          LET a == world[SolarKey]
              seen == Succeeded(a) /\ Measure(script, a) > 1
          IN  /\ Visible(script, "solar", a) <=> seen
              /\ Measure(script, a) = 1 => ~Visible(script, "solar", a)
              /\ Recorded(<<1, 2, 1>>) <=>
                    seen /\ Visible(script, "lunar", world[LunarKey])
    /\ \A a \in RichSolarAnswers, b \in RichSolarAnswers :
          (NoLess(a, b) /\ Visible(script, "solar", a)) => Visible(script, "solar", b)

\* A pair was left unrecorded because the solar eclipse covered exactly 0.001
\* where the lunar one was visible.
C14_Witness ==
    /\ pc = "done"
    /\ <<1, 2, 1>> \in tested
    /\ Succeeded(world[SolarKey])
    /\ world[SolarKey].retflag > 0
    /\ Measure(script, world[SolarKey]) = 1
    /\ Visible(script, "lunar", world[LunarKey])
    /\ pairs_found = <<>>

\* C15 as claimed: no record pairs two lunar eclipses.
C15_NoLunarLunarPair ==
    \A k \in DOMAIN pairs_found :
        ~(pairs_found[k].eclipse1[1] = "lunar" /\ pairs_found[k].eclipse2[1] = "lunar")

\* The event was seen at the location by the predicate of its own kind.
SeenByKind(e, loc) ==
    LET key == <<e[1], e[2], loc>>
    IN  /\ key \in DOMAIN world
        /\ \/ e[1] = "solar" /\ check_solar_eclipse_visibility(script, world[key])
           \/ e[1] = "lunar" /\ check_lunar_eclipse_visibility(script, world[key])

\* Both events of the index pair are lunar eclipses.
BothLunar(p) == eclipses[p[1]][1] = "lunar" /\ eclipses[p[2]][1] = "lunar"

\* C15 amended: a record pairs two events of any kinds, each seen at the
\* record's location by the predicate of its own kind; the kinds decide
\* nothing else, so two lunar eclipses within the threshold are evaluated
\* like any pair and recorded where both are seen.
C15_PairsOfAnyKinds ==
    /\ \A k \in DOMAIN pairs_found :
          LET r == pairs_found[k]
          IN  /\ r.eclipse1[1] \in Kinds /\ r.eclipse2[1] \in Kinds
              /\ SeenByKind(r.eclipse1, r.location)
              /\ SeenByKind(r.eclipse2, r.location)
    /\ (pc = "done" /\ test_locations # <<>>) =>
          \A p \in WithinThreshold :
              BothLunar(p) =>
                 /\ p \in EvaluatedPairs
                 /\ Satisfying(p) # {} => RecordsOf(p) # {}

\* Two lunar eclipses 10 days apart were recorded as a pair.
C15_Witness ==
    /\ pc = "done"
    /\ \E k \in DOMAIN pairs_found :
          /\ pairs_found[k].eclipse1[1] = "lunar"
          /\ pairs_found[k].eclipse2[1] = "lunar"
          /\ pairs_found[k].gap_days = 10 * Day

\* The location loop of the index pair has run or is at its first location.
Surviving(p) ==
    \/ p \in EvaluatedPairs
    \/ pc = "loc" /\ <<i, j>> = p /\ l = 1

\* C16: the threshold is 15 days throughout the run and an inclusive upper
\* bound: an index pair whose gap was computed goes on to the location loop
\* exactly when its gap is at most 15 days, a gap of exactly 15 days included,
\* and at the end the evaluated pairs are exactly the a < b with such a gap.
C16_ThresholdInclusive ==
    /\ max_gap_days = 15
    /\ test_locations # <<>> =>
          /\ \A p \in gapChecked : Surviving(p) <=> Gap(p[1], p[2]) <= 15 * Day
          /\ pc = "done" =>
                \A a \in DOMAIN eclipses, b \in DOMAIN eclipses :
                    a < b => (<<a, b>> \in EvaluatedPairs <=> Gap(a, b) <= 15 * Day)

\* A pair exactly 15 days apart was evaluated, one a tick further apart was
\* not.
C16_Witness ==
    /\ pc = "done"
    /\ \E p \in EvaluatedPairs : Gap(p[1], p[2]) = 15 * Day
    /\ \E p \in gapChecked : Gap(p[1], p[2]) = 15 * Day + 1 /\ p \notin EvaluatedPairs

SolarThenLunar(s) ==
    \A a \in DOMAIN s, b \in DOMAIN s :
        a < b => ~(s[a][1] = "lunar" /\ s[b][1] = "solar")

NonDecreasing(s) == \A k \in 1..(Len(s) - 1) : s[k][2] <= s[k + 1][2]

\* The list t is the list s rearranged, events of equal time in the order
\* they have in s.
StablePermutation(t, s) ==
    /\ Len(t) = Len(s)
    /\ \E f \in [DOMAIN t -> DOMAIN s] :
          /\ \A a \in DOMAIN t, b \in DOMAIN t : a # b => f[a] # f[b]
          /\ \A a \in DOMAIN t : t[a] = s[f[a]]
          /\ \A a \in DOMAIN t, b \in DOMAIN t :
                (a < b /\ t[a][2] = t[b][2]) => f[a] < f[b]

\* C18: the enumeration leaves the solar events followed by the lunar ones;
\* the step that ends it rearranges that list, keeping the order of events of
\* equal time; from then on the list is non-decreasing in time and of two
\* events of equal time the solar one stands first.
C18_StableMerge ==
    /\ [](/\ pc \in {"solar", "lunar"} => SolarThenLunar(eclipses)
          /\ pc \in {"pair", "loc", "done"} =>
                /\ NonDecreasing(eclipses)
                /\ \A a \in DOMAIN eclipses, b \in DOMAIN eclipses :
                      (a < b /\ eclipses[a][2] = eclipses[b][2]) =>
                          ~(eclipses[a][1] = "lunar" /\ eclipses[b][1] = "solar"))
    /\ [][(pc = "lunar" /\ pc' # "lunar") => StablePermutation(eclipses', eclipses)]_vars

\* A solar and a lunar eclipse of the same time were merged, the lunar one
\* moving before a later solar one.
C18_Witness ==
    /\ pc = "done"
    /\ eclipses = << <<"solar", JdStart>>, <<"lunar", JdStart>>,
                     <<"solar", JdStart + 16 * Day>> >>

\* The step leaves the inputs of the pair search as they are and the result
\* list as it is or longer by one record at its end.
InputsKept ==
    /\ eclipses' = eclipses
    /\ test_locations' = test_locations
    /\ max_gap_days' = max_gap_days
    /\ \/ pairs_found' = pairs_found
       \/ /\ Len(pairs_found') = Len(pairs_found) + 1
          /\ SubSeq(pairs_found', 1, Len(pairs_found)) = pairs_found

\* C19: a step of the pair loop leaves the event list, the grid and the
\* threshold as they are, and the result list as it is or longer by one
\* record at its end.
C19_PairSearchFrame == [][(pc \in {"pair", "loc"}) => InputsKept]_vars

\* The pair loop has ended with three records on a list of three events.
C19_Witness ==
    /\ pc = "done"
    /\ Len(eclipses) = 3
    /\ Len(pairs_found) >= 3

\* The grid positions evaluated for the index pair.
LocationsTested(p) == {t[3] : t \in {u \in tested : <<u[1], u[2]>> = p}}

\* The loop over j has gone on from the pair: the next pair's gap was
\* computed, or there was none left for this i, or the search has ended.
WentOn(p) ==
    \/ <<p[1], p[2] + 1>> \in gapChecked
    \/ pc = "pair" /\ i = p[1] /\ j = p[2] + 1
    \/ p[2] = Len(eclipses)

\* C20: in find_pairs_fixed.py and find_final.py an index pair has at most
\* one record; the record is for the first grid position at which both events
\* are visible, the positions up to it and no later one were evaluated, and
\* the loop over j went on with the next j.
C20_FirstMatch ==
    script \in {"fixed", "final"} =>
        \A p \in EvaluatedPairs :
            /\ Cardinality(RecordsOf(p)) <= 1
            /\ \A k \in RecordsOf(p) :
                  LET m == emitted[k][3]
                  IN  /\ pairs_found[k].location = test_locations[m]
                      /\ m \in Satisfying(p)
                      /\ \A n \in 1..(m - 1) : n \notin Satisfying(p)
                      /\ LocationsTested(p) = 1..m
                      /\ WentOn(p)
            /\ (RecordsOf(p) = {} /\ (pc # "loc" \/ <<i, j>> # p)) =>
                  /\ Satisfying(p) = {}
                  /\ LocationsTested(p) = DOMAIN test_locations

\* A first-match script recorded a pair at the first of two locations and
\* then evaluated the pair of the next j.
C20_Witness ==
    /\ pc = "done"
    /\ script \in {"fixed", "final"}
    /\ Len(test_locations) = 2
    /\ \E k \in DOMAIN emitted : emitted[k] = <<1, 2, 1>>
    /\ <<1, 3>> \in EvaluatedPairs

\* C21: a loop's first query has the cursor jd_start; the query after an
\* accepted event of time t has the cursor t + 1 day; no query has a cursor
\* at or past jd_end; no event of the list has a time at or past jd_end, and
\* the query that such an event answers is the loop's last, with nothing
\* appended for it.
C21_CursorProtocol ==
    /\ \A k \in DOMAIN eclipses : eclipses[k][2] < jd_end
    /\ \A kind \in Kinds :
          LET q == queries[kind]
              ts == KindTimes(kind)
          IN  /\ q # <<>> => q[1] = jd_start
              /\ \A k \in DOMAIN q : q[k] < jd_end
              /\ pc \in {"solar", "lunar"} =>
                    /\ Len(ts) <= Len(q)
                    /\ \A k \in DOMAIN q :
                          k > 1 => (k - 1 \in DOMAIN ts /\ q[k] = ts[k - 1] + Day)
              /\ oracleMode[kind] = "exact" =>
                    \A k \in DOMAIN q :
                        (~NoEventFound(AnswersTo(kind)[k])
                           /\ AnswersTo(kind)[k].tret >= jd_end) =>
                            /\ k = Len(q)
                            /\ LoopEnded(kind)
                            /\ Len(ts) = Len(q) - 1

\* The solar loop accepted an eclipse at jd_start, asked again a day later
\* and ended on an eclipse at jd_end.
C21_Witness ==
    /\ ephemeris["solar"] = {jd_start, jd_end}
    /\ LoopEnded("solar")
    /\ queries["solar"] = <<jd_start, jd_start + Day>>
    /\ KindTimes("solar") = <<jd_start>>

\* C22: in a generated grid every latitude is in [-90, 90] and every
\* longitude in [-180, 180), no location is there twice, and the finished
\* grid has (latitude steps) x (longitude steps) locations: 60 for the
\* 30-degree grid, 126 for the 20-degree one, 216 for the 15-degree one.
C22_GridInRangeAndSize ==
    pc \in {"grid", "gridded"} =>
        /\ \A k \in DOMAIN test_locations :
              /\ -90 <= test_locations[k].lat /\ test_locations[k].lat <= 90
              /\ -180 <= test_locations[k].lon /\ test_locations[k].lon < 180
        /\ \A a \in DOMAIN test_locations, b \in DOMAIN test_locations :
              a # b => test_locations[a] # test_locations[b]
        /\ pc = "gridded" =>
              /\ Len(test_locations) =
                    Cardinality({test_locations[k].lat : k \in DOMAIN test_locations})
                    * Cardinality({test_locations[k].lon : k \in DOMAIN test_locations})
              /\ Len(test_locations) =
                    (CASE script = "grid" -> 60
                       [] script = "fixed" -> 126
                       [] script = "final" -> 216)

\* The 15-degree grid is finished, from (-60, -180) to (60, 165).
C22_Witness ==
    /\ pc = "gridded"
    /\ script = "final"
    /\ Len(test_locations) = 216
    /\ test_locations[1] = [lat |-> -60, lon |-> -180]
    /\ test_locations[216] = [lat |-> 60, lon |-> 165]

\* C23: a record pairs two different events, the first earlier in the list
\* than the second; no two records hold the same two events in opposite
\* orders; and in find_eclipse_pairs.py and find_eclipse_pairs_grid.py no
\* two records are for the same index pair and grid position.
C23_NoSelfNoReverse ==
    /\ \A k \in DOMAIN pairs_found :
          /\ emitted[k][1] < emitted[k][2]
          /\ pairs_found[k].eclipse1 # pairs_found[k].eclipse2
    /\ \A a \in DOMAIN pairs_found, b \in DOMAIN pairs_found :
          ~(/\ pairs_found[a].eclipse1 = pairs_found[b].eclipse2
            /\ pairs_found[a].eclipse2 = pairs_found[b].eclipse1)
    /\ script \in {"pairs", "grid"} =>
          \A a \in DOMAIN emitted, b \in DOMAIN emitted :
              a # b => emitted[a] # emitted[b]

\* An exhaustive script recorded all three pairs of three events at both
\* locations.
C23_Witness ==
    /\ pc = "done"
    /\ script \in {"pairs", "grid"}
    /\ Len(eclipses) = 3
    /\ Len(pairs_found) = 6

\* The triple t stands before the triple u in lexicographic order.
LexLess(t, u) ==
    \/ t[1] < u[1]
    \/ t[1] = u[1] /\ t[2] < u[2]
    \/ t[1] = u[1] /\ t[2] = u[2] /\ t[3] < u[3]

\* The sequence s begins with the sequence t.
StartsWith(s, t) == Len(t) <= Len(s) /\ SubSeq(s, 1, Len(t)) = t

\* C24: the records stand in lexicographic order of (i, j, grid position),
\* so one for a later first event never stands before one for an earlier
\* first event; and every step of the search leaves the records it found in
\* place, at the head of the list.
C24_RecordsInLoopOrder ==
    /\ [](\A a \in DOMAIN emitted, b \in DOMAIN emitted :
            a < b => /\ LexLess(emitted[a], emitted[b])
                     /\ emitted[a][1] <= emitted[b][1])
    /\ [][StartsWith(pairs_found', pairs_found)]_vars

\* Records for the pairs (1, 2), (1, 3) and (2, 3) stand in that order.
C24_Witness ==
    /\ pc = "done"
    /\ \E a \in DOMAIN emitted, b \in DOMAIN emitted, c \in DOMAIN emitted :
          /\ a < b /\ b < c
          /\ <<emitted[a][1], emitted[a][2]>> = <<1, 2>>
          /\ <<emitted[b][1], emitted[b][2]>> = <<1, 3>>
          /\ <<emitted[c][1], emitted[c][2]>> = <<2, 3>>

\* C25: with no event or one, the pair loop's body never runs: no gap is
\* computed, no visibility query made, no record appended and the search has
\* ended; with an empty grid the gaps are computed for lists of any length,
\* the indices staying within the list, but no visibility query is made and
\* no record appended.
C25_DegenerateInputs ==
    /\ (LoopEnded("lunar") /\ Len(eclipses) <= 1) =>
          /\ pc = "done"
          /\ gapChecked = {}
          /\ tested = {}
          /\ world = <<>>
          /\ pairs_found = <<>>
    /\ test_locations = <<>> =>
          /\ pc # "loc"
          /\ pc = "pair" => (1 <= i /\ i < j /\ j <= Len(eclipses))
          /\ tested = {}
          /\ world = <<>>
          /\ pairs_found = <<>>

\* The search has ended on three events and an empty grid, all gaps computed.
C25_Witness ==
    /\ pc = "done"
    /\ test_locations = <<>>
    /\ Len(eclipses) = 3
    /\ Cardinality(gapChecked) = 3

\* The search has ended on a single event and a grid of two locations.
C25_WitnessOneEvent ==
    /\ pc = "done"
    /\ Len(eclipses) = 1
    /\ Len(test_locations) = 2
    /\ pairs_found = <<>>

====
